---- MODULE Spec2Model ----
(***************************************************************************)
(* Verification model of kgcnn: the ragged casting layers                  *)
(* (kgcnn/layers/ragged/casting.py), the adjacency utilities               *)
(* (kgcnn/utils/adj.py), the scalers (kgcnn/scaler/scaler.py) and the      *)
(* molecule dataset (kgcnn/data/moleculenet.py) and the training scripts   *)
(* (training/train_lipop.py, training/train_proteins.py).                  *)
(***************************************************************************)
EXTENDS Integers, Sequences, FiniteSets, TLC

VARIABLES
    \* ---- ragged casting layers ----
    batch_nodes,    \* nested list: per graph, the list of its node features
    batch_edges,    \* nested list: per graph, the list of its [i, j] edge indices
    nod,            \* tf.RaggedTensor of the nodes         (batch, None)
    edgeind,        \* tf.RaggedTensor of the edge indices  (batch, None, 2)
    calls,          \* the ChangeIndexing layers applied to edgeind so far
    cast,           \* what the last CastRaggedToValues call returned or raised
    layer_error,    \* exception raised by the last ChangeIndexing call, or "none"
    \* ---- adjacency utilities ----
    adj_fn,         \* the function of kgcnn.utils.adj called last, or "none"
    adj_arg,        \* its matrix argument: [fmt, dtype, shape, M]
    adj_add_identity,   \* its add_identity argument
    adj_ret,        \* what it returned
    adj_raised,     \* the exception it raised, or "none"
    \* ---- scalers ----
    scaler,         \* the scaler object: [cls, config, attrs]
    twin,           \* the scaler called alike with other ignored arguments
    scl_call,       \* the last call on scaler: method, arguments, result, exception
    twin_call,      \* the same call on twin: ignored argument, result, exception
    n_given,        \* samples given to scaler so far, in all calls
    files,          \* the file system: path -> the JSON document stored there
    loaded,         \* the new scaler that loaded a file
    load_call,      \* its load call: path, result, exception
    \* ---- MoleculeNetDataset ----
    dataset,        \* the dataset object: [file_name, data_directory, dataset_name]
    disk,           \* directory -> file name -> content of the file
    prep_call,      \* the last prepare_data call: arguments, what it did, exception
    n_prep,         \* number of prepare_data calls made
    \* ---- training scripts ----
    script,         \* the script that runs: "train_lipop" or "train_proteins"
    pc,             \* the step it is at, "done" or "aborted"
    hyper_data,     \* hyper['data']: key -> value
    k_fold_info,    \* hyper['training']['KFold'], Absent without the key
    graphs,         \* the dataset of the script: [length, range, reverse_pairs]
    indices,        \* the sample indices in the order KFold splits them
    n_body,         \* number of times the loop body ran
    train_index,    \* train_index of the last fold
    test_index,     \* test_index of the last fold
    all_test_index, \* the list all_test_index
    script_raised   \* the exception that ended the script and the step it was at

castVars == <<batch_nodes, batch_edges, nod, edgeind, calls, cast, layer_error>>

adjVars == <<adj_fn, adj_arg, adj_add_identity, adj_ret, adj_raised>>

sclVars == <<scaler, twin, scl_call, twin_call, n_given, files, loaded, load_call>>

dsVars == <<dataset, disk, prep_call, n_prep>>

trVars == <<script, pc, hyper_data, k_fold_info, graphs, indices, n_body, train_index,
            test_index, all_test_index, script_raised>>

vars == <<castVars, adjVars, sclVars, dsVars, trVars>>

\* What the steps of one subsystem leave alone.
notCastVars == <<adjVars, sclVars, dsVars, trVars>>
notAdjVars == <<castVars, sclVars, dsVars, trVars>>
notSclVars == <<castVars, adjVars, dsVars, trVars>>
notDsVars == <<castVars, adjVars, sclVars, trVars>>
notTrVars == <<castVars, adjVars, sclVars, dsVars>>

(***************************************************************************)
(* Bounds of the model.                                                    *)
(***************************************************************************)
MaxGraphs == 2      \* graphs in a batch
MaxNodes == 2       \* nodes of one graph
MaxEdges == 2       \* edges of a whole batch

\* Values an entry of an input edge index takes.
IndexValues == {0, 1}

(***************************************************************************)
(* Sequences helpers.                                                      *)
(***************************************************************************)
RECURSIVE SumSeq(_)
SumSeq(s) == IF s = <<>> THEN 0 ELSE Head(s) + SumSeq(Tail(s))

RECURSIVE Flatten(_)
Flatten(rows) == IF rows = <<>> THEN <<>> ELSE Head(rows) \o Flatten(Tail(rows))

\* Variant: the slice [1:] in place of [:-1].
Prefix_from_second(s, n) == SubSeq(s, 2, n + 1)

Prefix(s, n) == SubSeq(s, 1, n)

(***************************************************************************)
(* tf.RaggedTensor with one ragged dimension: the flat values and the      *)
(* row_splits of the row partition.                                        *)
(***************************************************************************)
RECURSIVE CumSum(_, _)
CumSum(lens, acc) ==
    IF lens = <<>> THEN <<>> ELSE <<acc + Head(lens)>> \o CumSum(Tail(lens), acc + Head(lens))

\* ragged_tensor_from_nested_numpy: values are the concatenated rows,
\* row_splits the cumulated row lengths with a leading 0.
RaggedFromNested(rows) ==
    [values |-> Flatten(rows),
     row_splits |-> <<0>> \o CumSum([i \in 1 .. Len(rows) |-> Len(rows[i])], 0)]

\* RaggedTensor.row_lengths(): row_splits[1:] - row_splits[:-1]
row_lengths(rt) ==
    [i \in 1 .. (Len(rt.row_splits) - 1) |-> rt.row_splits[i + 1] - rt.row_splits[i]]

\* tf.repeat(input, repeats): input[i] repeated repeats[i] times, in order.
RECURSIVE tf_repeat(_, _)
tf_repeat(input, repeats) ==
    IF input = <<>> THEN <<>>
    ELSE [k \in 1 .. Head(repeats) |-> Head(input)] \o tf_repeat(Tail(input), Tail(repeats))

\* RaggedTensor.value_rowids(): the row index of every value.
value_rowids(rt) ==
    tf_repeat([i \in 1 .. (Len(rt.row_splits) - 1) |-> i - 1], row_lengths(rt))

\* RaggedTensor.from_row_splits(values, row_splits)
from_row_splits(values, row_splits) == [values |-> values, row_splits |-> row_splits]

\* Row g (1-based) of a ragged tensor.
Row(rt, g) == SubSeq(rt.values, rt.row_splits[g] + 1, rt.row_splits[g + 1])

NRows(rt) == Len(rt.row_splits) - 1

(***************************************************************************)
(* CastRaggedToValues.call                                                 *)
(***************************************************************************)
PartitionTypes == {"row_length", "row_splits", "value_rowids", "row_ids"}

\* Variant: the row_length branch hands out the row_splits.
CastRaggedToValues_call_splits(partition_type, inputs) ==
    LET tens == inputs
        flat_tens == tens.values
    IN  IF partition_type \in {"row_length", "row_splits"}
        THEN [raised |-> "none", values |-> flat_tens, partition |-> tens.row_splits]
        ELSE IF partition_type = "value_rowids"
        THEN [raised |-> "none", values |-> flat_tens, partition |-> value_rowids(tens)]
        ELSE [raised |-> "TypeError", values |-> <<>>, partition |-> <<>>]

CastRaggedToValues_call(partition_type, inputs) ==
    LET tens == inputs
        flat_tens == tens.values
    IN  IF partition_type = "row_length"
        THEN [raised |-> "none", values |-> flat_tens, partition |-> row_lengths(tens)]
        ELSE IF partition_type = "row_splits"
        THEN [raised |-> "none", values |-> flat_tens, partition |-> tens.row_splits]
        ELSE IF partition_type = "value_rowids"
        THEN [raised |-> "none", values |-> flat_tens, partition |-> value_rowids(tens)]
        ELSE [raised |-> "TypeError", values |-> <<>>, partition |-> <<>>]

(***************************************************************************)
(* ChangeIndexing.call                                                     *)
(***************************************************************************)
Indexings == {"sample", "batch"}

\* Variant: the shift is added whatever the direction.
ShiftBy_always_add(shift1, shift2, sign) ==
    [k \in 1 .. Len(shift1) |-> <<shift1[k][1] + shift2[k], shift1[k][2] + shift2[k]>>]

\* shift1 + shift2 with shift2 of shape (E, 1) broadcast over the 2 columns.
ShiftBy(shift1, shift2, sign) ==
    [k \in 1 .. Len(shift1) |->
        <<shift1[k][1] + sign * shift2[k], shift1[k][2] + sign * shift2[k]>>]

\* Variant: the shift is taken from the row_splits of the edges, not of the nodes.
ChangeIndexing_call_edge_splits(to_indexing, from_indexing, inputs) ==
    LET ei == inputs[2]
        shift1 == ei.values
        shift2 == tf_repeat(Prefix(ei.row_splits, Len(ei.row_splits) - 1), row_lengths(ei))
    IN  IF to_indexing = "batch" /\ from_indexing = "sample"
        THEN [raised |-> "none",
              out |-> from_row_splits(ShiftBy(shift1, shift2, 1), ei.row_splits)]
        ELSE IF to_indexing = "sample" /\ from_indexing = "batch"
        THEN [raised |-> "none",
              out |-> from_row_splits(ShiftBy(shift1, shift2, -1), ei.row_splits)]
        ELSE IF to_indexing \in Indexings /\ from_indexing \in Indexings
        THEN [raised |-> "none", out |-> from_row_splits(shift1, ei.row_splits)]
        ELSE [raised |-> "TypeError", out |-> ei]

ChangeIndexing_call(to_indexing, from_indexing, inputs) ==
    LET nd == inputs[1]
        ei == inputs[2]
        shift1 == ei.values
        shift2 == tf_repeat(Prefix(nd.row_splits, Len(nd.row_splits) - 1), row_lengths(ei))
    IN  IF to_indexing = "batch" /\ from_indexing = "sample"
        THEN [raised |-> "none",
              out |-> from_row_splits(ShiftBy(shift1, shift2, 1), ei.row_splits)]
        ELSE IF to_indexing = "sample" /\ from_indexing = "batch"
        THEN [raised |-> "none",
              out |-> from_row_splits(ShiftBy(shift1, shift2, -1), ei.row_splits)]
        ELSE IF to_indexing = "sample" /\ from_indexing = "sample"
        THEN [raised |-> "none", out |-> from_row_splits(shift1, ei.row_splits)]
        ELSE IF to_indexing = "batch" /\ from_indexing = "batch"
        THEN [raised |-> "none", out |-> from_row_splits(shift1, ei.row_splits)]
        ELSE [raised |-> "TypeError", out |-> ei]

(***************************************************************************)
(* kgcnn.utils.adj: matrices and their arithmetic.                         *)
(*                                                                         *)
(* A matrix argument is [fmt, dtype, shape, M] with M a function on the    *)
(* 0-based positions.  dtype "int64" computes exactly.  dtype "float64"    *)
(* rounds every sum to the nearest float (ties to even); the model keeps   *)
(* MantissaBits bits of significand where the IEEE double keeps 53.        *)
(***************************************************************************)
MaxN == 2           \* rows and columns of a matrix
MantissaBits == 3   \* significand bits of the modelled float

Formats == {"ndarray", "csr_matrix", "coo_matrix", "list"}
SparseFormats == {"csr_matrix", "coo_matrix"}

Positions(n, m) == (0 .. (n - 1)) \X (0 .. (m - 1))

\* Entries of an adjacency matrix of each dtype.
Weights(dtype) == IF dtype = "int64" THEN {-1, 0, 1} ELSE {0, 1, 2 ^ MantissaBits}

\* Spacing of the floats at x >= 0: the least power of two s with x < 2^MantissaBits * s.
RECURSIVE Ulp(_, _)
Ulp(x, s) == IF x < (2 ^ MantissaBits) * s THEN s ELSE Ulp(x, 2 * s)

RoundNonNeg(x) ==
    LET s == Ulp(x, 1)
        q == x \div s
        r == x % s
    IN  IF 2 * r < s THEN q * s
        ELSE IF 2 * r > s THEN (q + 1) * s
        ELSE IF q % 2 = 0 THEN q * s ELSE (q + 1) * s

\* Round to nearest float, ties to even.
RoundFloat(x) == IF x >= 0 THEN RoundNonNeg(x) ELSE 0 - RoundNonNeg(0 - x)

\* x + y and x - y in the arithmetic of the dtype.
Add(dtype, x, y) == IF dtype = "float64" THEN RoundFloat(x + y) ELSE x + y
Sub(dtype, x, y) == IF dtype = "float64" THEN RoundFloat(x - y) ELSE x - y

\* bool * number
Mask(b, x) == IF b THEN x ELSE 0

(***************************************************************************)
(* make_undirected                                                         *)
(***************************************************************************)
make_undirected(A) ==
    LET n == A.shape[1]
        d == A.dtype
    IN  IF A.fmt = "ndarray"
        THEN LET At == [p \in Positions(n, n) |-> A.M[<<p[2], p[1]>>]]
                 Aout == [p \in Positions(n, n) |->
                             Add(d, Mask(At[p] > A.M[p], At[p]), Mask(A.M[p] >= At[p], A.M[p]))]
             IN  [raised |-> "none", ret |-> [fmt |-> "ndarray", M |-> Aout]]
        ELSE IF A.fmt \in SparseFormats
        THEN LET adj == A.M
                 adj_t == [p \in Positions(n, n) |-> A.M[<<p[2], p[1]>>]]
                 Aout == [p \in Positions(n, n) |->
                             Sub(d,
                                 Add(d,
                                     Add(d, Mask(adj_t[p] > adj[p], adj_t[p]),
                                            Mask(adj[p] > adj_t[p], adj[p])),
                                     adj[p]),
                                 Mask(adj[p] # adj_t[p], adj[p]))]
             IN  [raised |-> "none", ret |-> [fmt |-> "coo_matrix", M |-> Aout]]
        ELSE [raised |-> "none", ret |-> "None"]

(***************************************************************************)
(* scaled_adjacency_to_list                                                *)
(***************************************************************************)
\* Row-major list of the positions of an (n, m) matrix.
RowMajor(n, m) == [k \in 1 .. (n * m) |-> <<(k - 1) \div m, (k - 1) % m>>]

\* X[mask] of numpy for a boolean mask of the shape of X: the entries of X
\* where the mask is True, in row-major order.
RECURSIVE BooleanIndex(_, _, _)
BooleanIndex(X, mask, order) ==
    IF order = <<>> THEN <<>>
    ELSE (IF mask[Head(order)] THEN <<X[Head(order)]>> ELSE <<>>)
         \o BooleanIndex(X, mask, Tail(order))

\* Variant: the mask keeps every entry that is not zero.
scaled_adjacency_to_list_nonzero(Ascaled) ==
    LET n == Ascaled.shape[1]
        m == Ascaled.shape[2]
        A == [p \in Positions(n, m) |-> Ascaled.M[p] # 0]
        index12 == [p \in Positions(n, m) |-> p]
    IN  IF Ascaled.fmt \in {"ndarray", "csr_matrix", "coo_matrix"}
        THEN [raised |-> "none",
              ret |-> [edge_index |-> BooleanIndex(index12, A, RowMajor(n, m)),
                       edge_weight |-> BooleanIndex(Ascaled.M, A, RowMajor(n, m))]]
        ELSE [raised |-> "UnboundLocalError", ret |-> "None"]

scaled_adjacency_to_list(Ascaled) ==
    LET n == Ascaled.shape[1]
        m == Ascaled.shape[2]
    IN  IF Ascaled.fmt = "ndarray"
        THEN LET A == [p \in Positions(n, m) |-> Ascaled.M[p] > 0]
                 edge_weight == BooleanIndex(Ascaled.M, A, RowMajor(n, m))
                 index1 == [p \in Positions(n, m) |-> p[1]]
                 index2 == [p \in Positions(n, m) |-> p[2]]
                 index12 == [p \in Positions(n, m) |-> <<index1[p], index2[p]>>]
                 edge_index == BooleanIndex(index12, A, RowMajor(n, m))
             IN  [raised |-> "none",
                  ret |-> [edge_index |-> edge_index, edge_weight |-> edge_weight]]
        ELSE IF Ascaled.fmt \in SparseFormats
        THEN \* tocoo(): row, col and data of the stored (non-zero) entries
             LET stored == [p \in Positions(n, m) |-> Ascaled.M[p] # 0]
                 ident == [p \in Positions(n, m) |-> p]
                 edge_index == BooleanIndex(ident, stored, RowMajor(n, m))
                 edge_weight == BooleanIndex(Ascaled.M, stored, RowMajor(n, m))
             IN  [raised |-> "none",
                  ret |-> [edge_index |-> edge_index, edge_weight |-> edge_weight]]
        ELSE \* type(A) is evaluated for the message, and A is a local variable
             \* that only the ndarray branch assigns
             [raised |-> "UnboundLocalError", ret |-> "None"]

(***************************************************************************)
(* precompute_adjacency_scaled.  The entries of the result are kept as     *)
(* terms  coef * prod_{r in rad} r^(-1/2), so that the square roots are    *)
(* exact; a term with a radicand 0 is inf, as numpy's power(0, -0.5).      *)
(***************************************************************************)
Zero == [coef |-> 0, rad |-> <<>>]
Num(a) == [coef |-> a, rad |-> <<>>]

\* np.power(s, -0.5) for s >= 0; the term of s = 0 is inf
PowMinusHalf(s) == [coef |-> 1, rad |-> <<s>>]

IsInf(x) == x.coef # 0 /\ \E k \in 1 .. Len(x.rad) : x.rad[k] = 0

\* d[np.isinf(d)] = 0.
InfToZero(d) == [i \in DOMAIN d |-> IF IsInf(d[i]) THEN Zero ELSE d[i]]

TMul(x, y) ==
    IF x.coef = 0 \/ y.coef = 0 THEN Zero
    ELSE [coef |-> x.coef * y.coef, rad |-> x.rad \o y.rad]

\* Sum of the terms t[0], ..., t[n-1]; the products of a matrix with a
\* diagonal matrix have at most one term that is not zero.
TSum(t, n) ==
    LET nz == {k \in 0 .. (n - 1) : t[k] # Zero}
    IN  IF nz = {} THEN Zero
        ELSE IF Cardinality(nz) = 1 THEN t[CHOOSE k \in nz : TRUE]
        ELSE [sum |-> {t[k] : k \in nz}]

\* np.matmul / dot of two (n, n) matrices of terms
MatMul(X, Y, n) ==
    [p \in Positions(n, n) |-> TSum([k \in 0 .. (n - 1) |-> TMul(X[<<p[1], k>>], Y[<<k, p[2]>>])], n)]

\* Diagonal matrix of the vector d
Diag(d, n) == [p \in Positions(n, n) |-> IF p[1] = p[2] THEN d[p[1]] ELSE Zero]

RECURSIVE SumRange(_, _)
\* f[0] + ... + f[n-1]
SumRange(f, n) == IF n = 0 THEN 0 ELSE f[n - 1] + SumRange(f, n - 1)

\* Variant: the row factor is taken from the column sums and the column factor
\* from the row sums.
precompute_adjacency_scaled_swapped(A0, add_identity) ==
    LET n == A0.shape[1]
    IN  IF A0.fmt = "ndarray" \/ A0.fmt \in SparseFormats
        THEN LET A == [p \in Positions(n, n) |->
                          IF add_identity /\ p[1] = p[2] THEN A0.M[p] + 1 ELSE A0.M[p]]
                 rowsum == [i \in 0 .. (n - 1) |-> SumRange([j \in 0 .. (n - 1) |-> A[<<i, j>>]], n)]
                 colsum == [j \in 0 .. (n - 1) |-> SumRange([i \in 0 .. (n - 1) |-> A[<<i, j>>]], n)]
                 d_ii == InfToZero([i \in 0 .. (n - 1) |-> PowMinusHalf(colsum[i])])
                 d_jj == InfToZero([j \in 0 .. (n - 1) |-> PowMinusHalf(rowsum[j])])
                 At == [p \in Positions(n, n) |-> Num(A[p])]
             IN  [raised |-> "none",
                  ret |-> [fmt |-> IF A0.fmt = "ndarray" THEN "ndarray" ELSE "coo_matrix",
                           M |-> MatMul(Diag(d_ii, n), MatMul(At, Diag(d_jj, n), n), n)]]
        ELSE [raised |-> "TypeError", ret |-> "None"]

precompute_adjacency_scaled(A0, add_identity) ==
    LET n == A0.shape[1]
    IN  IF A0.fmt = "ndarray"
        THEN LET A == [p \in Positions(n, n) |->
                          IF add_identity /\ p[1] = p[2] THEN A0.M[p] + 1 ELSE A0.M[p]]
                 rowsum == [i \in 0 .. (n - 1) |-> SumRange([j \in 0 .. (n - 1) |-> A[<<i, j>>]], n)]
                 colsum == [j \in 0 .. (n - 1) |-> SumRange([i \in 0 .. (n - 1) |-> A[<<i, j>>]], n)]
                 d_ii == InfToZero([i \in 0 .. (n - 1) |-> PowMinusHalf(rowsum[i])])
                 d_jj == InfToZero([j \in 0 .. (n - 1) |-> PowMinusHalf(colsum[j])])
                 Di == Diag(d_ii, n)
                 Dj == Diag(d_jj, n)
                 At == [p \in Positions(n, n) |-> Num(A[p])]
             IN  [raised |-> "none",
                  ret |-> [fmt |-> "ndarray", M |-> MatMul(Di, MatMul(At, Dj, n), n)]]
        ELSE IF A0.fmt \in SparseFormats
        THEN LET adj == [p \in Positions(n, n) |->
                            IF add_identity /\ p[1] = p[2] THEN A0.M[p] + 1 ELSE A0.M[p]]
                 colsum == [j \in 0 .. (n - 1) |-> SumRange([i \in 0 .. (n - 1) |-> adj[<<i, j>>]], n)]
                 rowsum == [i \in 0 .. (n - 1) |-> SumRange([j \in 0 .. (n - 1) |-> adj[<<i, j>>]], n)]
                 d_ii == InfToZero([i \in 0 .. (n - 1) |-> PowMinusHalf(rowsum[i])])
                 d_jj == InfToZero([j \in 0 .. (n - 1) |-> PowMinusHalf(colsum[j])])
                 Di == Diag(d_ii, n)
                 Dj == Diag(d_jj, n)
                 adjt == [p \in Positions(n, n) |-> Num(adj[p])]
             IN  [raised |-> "none",
                  ret |-> [fmt |-> "coo_matrix", M |-> MatMul(MatMul(Di, adjt, n), Dj, n)]]
        ELSE [raised |-> "TypeError", ret |-> "None"]

(***************************************************************************)
(* State machine of the adjacency utilities: the matrix argument is drawn  *)
(* in the initial state, a step is the call of one of the functions on it. *)
(***************************************************************************)
Dtypes == {"int64", "float64"}

NoMatrix == [fmt |-> "ndarray", dtype |-> "int64", shape |-> <<0, 0>>, M |-> <<>>]

IsSquare(A) == A.shape[1] = A.shape[2]
NonNegative(A) == \A p \in DOMAIN A.M : A.M[p] >= 0

\* make_undirected(A) of an (N, N) adjacency matrix
CallMakeUndirected ==
    /\ adj_fn = "none"
    /\ IsSquare(adj_arg)
    /\ LET r == make_undirected(adj_arg)
       IN  /\ adj_fn' = "make_undirected"
           /\ adj_ret' = r.ret
           /\ adj_raised' = r.raised
    /\ UNCHANGED <<adj_arg, adj_add_identity, notAdjVars>>

\* precompute_adjacency_scaled(A, add_identity) of an (N, N) adjacency matrix
\* with exactly summed non-negative entries
CallPrecomputeAdjacencyScaled ==
    /\ adj_fn = "none"
    /\ IsSquare(adj_arg)
    /\ NonNegative(adj_arg)
    /\ adj_arg.dtype = "int64"
    /\ \E add_identity \in BOOLEAN :
          LET r == precompute_adjacency_scaled(adj_arg, add_identity)
          IN  /\ adj_fn' = "precompute_adjacency_scaled"
              /\ adj_add_identity' = add_identity
              /\ adj_ret' = r.ret
              /\ adj_raised' = r.raised
    /\ UNCHANGED <<adj_arg, notAdjVars>>

\* scaled_adjacency_to_list(Ascaled)
CallScaledAdjacencyToList ==
    /\ adj_fn = "none"
    /\ LET r == scaled_adjacency_to_list(adj_arg)
       IN  /\ adj_fn' = "scaled_adjacency_to_list"
           /\ adj_ret' = r.ret
           /\ adj_raised' = r.raised
    /\ UNCHANGED <<adj_arg, adj_add_identity, notAdjVars>>

NextAdj == CallMakeUndirected \/ CallPrecomputeAdjacencyScaled \/ CallScaledAdjacencyToList

(***************************************************************************)
(* State machine of the casting layers: a batch is assembled graph by      *)
(* graph, then layers are called on its ragged tensors.                    *)
(***************************************************************************)
NoCast == [raised |-> "none", values |-> <<>>, partition |-> <<>>,
           partition_type |-> "none", of |-> "none"]

Untouched == calls = <<>> /\ cast = NoCast /\ layer_error = "none"

EdgeLists(n) ==
    UNION {[1 .. m -> IndexValues \X IndexValues] : m \in 0 .. n}

\* One more graph with n nodes and the edge list es joins the batch.
AddGraph ==
    /\ Untouched
    /\ Len(batch_nodes) < MaxGraphs
    /\ \E n \in 0 .. MaxNodes :
       \E es \in EdgeLists(MaxEdges - Len(Flatten(batch_edges))) :
          /\ batch_nodes' = Append(batch_nodes, [k \in 1 .. n |-> k - 1])
          /\ batch_edges' = Append(batch_edges, es)
          /\ nod' = RaggedFromNested(batch_nodes')
          /\ edgeind' = RaggedFromNested(batch_edges')
    /\ UNCHANGED <<calls, cast, layer_error, notCastVars>>

\* A first ChangeIndexing layer on [nod, edgeind], or a second one that
\* takes the indexing the first one produced.
ChangeIndexing ==
    /\ cast = NoCast
    /\ layer_error = "none"
    /\ Len(calls) < 2
    /\ \E to_indexing \in Indexings \cup {"graph"}, from_indexing \in Indexings :
          /\ calls # <<>> => from_indexing = calls[Len(calls)].to_indexing
          /\ LET r == ChangeIndexing_call(to_indexing, from_indexing, <<nod, edgeind>>)
             IN  /\ layer_error' = r.raised
                 /\ edgeind' = r.out
                 /\ calls' = IF r.raised = "none"
                             THEN Append(calls, [from_indexing |-> from_indexing,
                                                 to_indexing |-> to_indexing])
                             ELSE calls
    /\ UNCHANGED <<batch_nodes, batch_edges, nod, cast, notCastVars>>

\* CastRaggedToValues on the node tensor or on the edge index tensor.
CastRaggedToValues ==
    /\ Untouched
    /\ \E partition_type \in PartitionTypes, of \in {"nodes", "edge_indices"} :
          LET r == CastRaggedToValues_call(partition_type,
                                           IF of = "nodes" THEN nod ELSE edgeind)
          IN  cast' = [raised |-> r.raised, values |-> r.values, partition |-> r.partition,
                       partition_type |-> partition_type, of |-> of]
    /\ UNCHANGED <<batch_nodes, batch_edges, nod, edgeind, calls, layer_error, notCastVars>>

NextCasting == AddGraph \/ ChangeIndexing \/ CastRaggedToValues

(***************************************************************************)
(* kgcnn.scaler.scaler: Python and numpy values.                           *)
(*                                                                         *)
(* A value is a record with its type t and, but for None, its content v.   *)
(* Floats are exact fractions <<p, q>> in lowest terms, and a standard     *)
(* deviation is kept as the square root [sqrt_of |-> variance].            *)
(***************************************************************************)
None == [t |-> "None"]
Absent == [t |-> "absent"]      \* the attribute, key or file does not exist
Self == [t |-> "self"]          \* the scaler the method was called on
PyInt(k) == [t |-> "int", v |-> k]
PyBool(b) == [t |-> "bool", v |-> b]
PyFloat(r) == [t |-> "float", v |-> r]
PyList(l) == [t |-> "list", v |-> l]
NpInt64(k) == [t |-> "np.int64", v |-> k]
NpFloat64(r) == [t |-> "np.float64", v |-> r]
NdArray(l) == [t |-> "ndarray", v |-> l]        \* array of shape (n,)
NdArray0(x) == [t |-> "ndarray0", v |-> x]      \* array of shape ()
PyDict(d) == [t |-> "dict", v |-> d]
PyStr(x) == [t |-> "str", v |-> x]

\* np.array(value)
np_array(value) ==
    IF value.t \in {"ndarray", "ndarray0"} THEN value
    ELSE IF value.t = "list" THEN NdArray(value.v)
    ELSE IF value.t = "np.int64" THEN NdArray0(PyInt(value.v))
    ELSE IF value.t = "np.float64" THEN NdArray0(PyFloat(value.v))
    ELSE NdArray0(value)

\* ndarray.tolist(): nested lists of Python scalars, the scalar itself for shape ()
tolist(arr) == IF arr.t = "ndarray" THEN PyList(arr.v) ELSE arr.v

\* What json.dump accepts.
JsonTypes == {"None", "int", "float", "bool", "list", "absent"}

RECURSIVE GCD(_, _)
GCD(a, b) == IF b = 0 THEN a ELSE GCD(b, a % b)

Abs(x) == IF x >= 0 THEN x ELSE 0 - x

\* The fraction p / q, q > 0, in lowest terms.
Rat(p, q) == LET g == GCD(Abs(p), q) IN <<(IF p >= 0 THEN 1 ELSE -1) * (Abs(p) \div g), q \div g>>

RInt(k) == <<k, 1>>
RAdd(a, b) == Rat(a[1] * b[2] + b[1] * a[2], a[2] * b[2])
RSub(a, b) == Rat(a[1] * b[2] - b[1] * a[2], a[2] * b[2])
RMul(a, b) == Rat(a[1] * b[1], a[2] * b[2])
RDivInt(a, n) == Rat(a[1], a[2] * n)

(***************************************************************************)
(* sklearn.preprocessing.StandardScaler, the base class of the scalers,    *)
(* on arrays of shape (n_samples, 1).  A scaler object is                  *)
(* [cls, config, attrs]: its class, its constructor parameters and its     *)
(* fitted attributes.                                                      *)
(***************************************************************************)
_attributes_list_sklearn ==
    <<"n_features_in_", "mean_", "scale_", "var_", "feature_names_in_", "n_samples_seen_">>

AttrNames == {_attributes_list_sklearn[i] : i \in 1 .. Len(_attributes_list_sklearn)}

NoAttrs == [x \in AttrNames |-> Absent]

hasattr(self, x) == self.attrs[x].t # "absent"

NewScaler(cls, copy, with_mean, with_std) ==
    [cls |-> cls,
     config |-> [copy |-> copy, with_mean |-> with_mean, with_std |-> with_std],
     attrs |-> NoAttrs]

\* StandardScaler._reset
_reset(self) ==
    IF hasattr(self, "scale_")
    THEN [self EXCEPT !.attrs = [x \in AttrNames |->
              IF x \in {"scale_", "n_samples_seen_", "mean_", "var_"} THEN Absent ELSE self.attrs[x]]]
    ELSE self

\* _handle_zeros_in_scale(np.sqrt(var))
ScaleOf(var) == IF var[1] = 0 THEN [sqrt_of |-> RInt(1)] ELSE [sqrt_of |-> var]

Weight(sample_weight, i) == IF sample_weight.t = "None" THEN 1 ELSE sample_weight.v[i]

\* sklearn StandardScaler.partial_fit(X, y, sample_weight): the running mean
\* and variance of all samples seen, y is not looked at.
sk_partial_fit(self, X, y, sample_weight) ==
    IF X.t = "None"
    THEN [self |-> self, ret |-> None, raised |-> "ValueError"]
    ELSE
    LET first == ~hasattr(self, "n_samples_seen_")
        k == Len(X.v)
        nb == SumSeq([i \in 1 .. k |-> Weight(sample_weight, i)])
        sumb == SumSeq([i \in 1 .. k |-> Weight(sample_weight, i) * X.v[i]])
        sqb == SumSeq([i \in 1 .. k |-> Weight(sample_weight, i) * X.v[i] * X.v[i]])
        n0 == IF first THEN 0 ELSE self.attrs["n_samples_seen_"].v
        n == n0 + nb
        counted == IF sample_weight.t # "None"
                      \/ (~first /\ self.attrs["n_samples_seen_"].t = "np.float64")
                   THEN NpFloat64(n) ELSE NpInt64(n)
        mean0 == IF first THEN RInt(0) ELSE self.attrs["mean_"].v[1]
        var0 == IF first THEN RInt(0) ELSE self.attrs["var_"].v[1]
        mean == RDivInt(RAdd(RMul(mean0, RInt(n0)), RInt(sumb)), n)
        var == RSub(RDivInt(RAdd(RMul(RAdd(var0, RMul(mean0, mean0)), RInt(n0)), RInt(sqb)), n),
                    RMul(mean, mean))
        fitted ==
            IF ~self.config.with_mean /\ ~self.config.with_std
            THEN [x \in AttrNames |->
                    IF x = "n_features_in_" THEN PyInt(1)
                    ELSE IF x = "n_samples_seen_" THEN counted
                    ELSE IF x \in {"mean_", "var_", "scale_"} THEN None
                    ELSE self.attrs[x]]
            ELSE [x \in AttrNames |->
                    IF x = "n_features_in_" THEN PyInt(1)
                    ELSE IF x = "n_samples_seen_" THEN counted
                    ELSE IF x = "mean_" THEN NdArray(<<mean>>)
                    ELSE IF x = "var_"
                         THEN (IF self.config.with_std THEN NdArray(<<var>>) ELSE None)
                    ELSE IF x = "scale_"
                         THEN (IF self.config.with_std THEN NdArray(<<ScaleOf(var)>>) ELSE None)
                    ELSE self.attrs[x]]
    IN  [self |-> [self EXCEPT !.attrs = fitted], ret |-> Self, raised |-> "none"]

\* check_is_fitted: some attribute with a trailing underscore is set
IsFitted(self) == \E x \in AttrNames : hasattr(self, x)

\* self.mean_ or self.scale_ is read and the scaler does not have it
LacksStatistics(self) ==
    \/ self.config.with_mean /\ ~hasattr(self, "mean_")
    \/ self.config.with_std /\ ~hasattr(self, "scale_")

\* sklearn StandardScaler.transform(X): (X - mean_) / scale_
sk_transform(self, X) ==
    IF ~IsFitted(self) THEN [self |-> self, ret |-> None, raised |-> "NotFittedError"]
    ELSE IF X.t = "None" THEN [self |-> self, ret |-> None, raised |-> "ValueError"]
    ELSE IF LacksStatistics(self) THEN [self |-> self, ret |-> None, raised |-> "AttributeError"]
    ELSE [self |-> self, raised |-> "none",
          ret |-> NdArray([i \in 1 .. Len(X.v) |->
                    [x |-> X.v[i],
                     minus |-> IF self.config.with_mean THEN self.attrs["mean_"].v[1] ELSE RInt(0),
                     over |-> IF self.config.with_std THEN self.attrs["scale_"].v[1]
                              ELSE [sqrt_of |-> RInt(1)]]])]

\* sklearn StandardScaler.inverse_transform(X): X * scale_ + mean_
sk_inverse_transform(self, X) ==
    IF ~IsFitted(self) THEN [self |-> self, ret |-> None, raised |-> "NotFittedError"]
    ELSE IF X.t = "None" THEN [self |-> self, ret |-> None, raised |-> "ValueError"]
    ELSE IF LacksStatistics(self) THEN [self |-> self, ret |-> None, raised |-> "AttributeError"]
    ELSE [self |-> self, raised |-> "none",
          ret |-> NdArray([i \in 1 .. Len(X.v) |->
                    [x |-> X.v[i],
                     times |-> IF self.config.with_std THEN self.attrs["scale_"].v[1]
                               ELSE [sqrt_of |-> RInt(1)],
                     plus |-> IF self.config.with_mean THEN self.attrs["mean_"].v[1] ELSE RInt(0)]])]

(***************************************************************************)
(* StandardScalerSklearnBase                                               *)
(***************************************************************************)
\* get_config: get_params() of sklearn
get_config(self) ==
    [copy |-> PyBool(self.config.copy),
     with_mean |-> PyBool(self.config.with_mean),
     with_std |-> PyBool(self.config.with_std)]

\* set_config: set_params(**config)
set_config(self, config) ==
    [self EXCEPT !.config = [copy |-> config.copy.v,
                             with_mean |-> config.with_mean.v,
                             with_std |-> config.with_std.v]]

\* get_weights: the attributes of _attributes_list_sklearn the scaler has,
\* as (nested) lists; a key the dict does not hold is Absent.
get_weights(self) ==
    [x \in AttrNames |->
        IF hasattr(self, x)
        THEN LET value == self.attrs[x]
             IN  IF value.t # "None" THEN tolist(np_array(value)) ELSE value
        ELSE Absent]

\* set_weights: every item of the dict becomes an attribute, as np.array
set_weights(self, weights) ==
    [self EXCEPT !.attrs = [x \in AttrNames |->
        IF weights[x].t # "absent" THEN np_array(weights[x]) ELSE self.attrs[x]]]

\* os.path.splitext(file_path)[0] + ".json"
JsonPath(file_path) == [stem |-> file_path.stem, ext |-> ".json"]

\* json.dump takes the dict: its values are None, numbers, bools and lists
JsonSerializable(full_info) ==
    /\ \A x \in AttrNames : full_info.weights[x].t \in JsonTypes
    /\ \A c \in DOMAIN full_info.config : full_info.config[c].t \in JsonTypes

\* save_json_file(obj, file_path): the files afterwards, and what it raised
save_json_file(obj, file_path, fs) ==
    IF JsonSerializable(obj)
    THEN [fs |-> [fs EXCEPT ![file_path] = PyDict(obj)], raised |-> "none"]
    ELSE [fs |-> fs, raised |-> "TypeError"]

\* load_json_file(file_path): the dict stored in the file
load_json_file(file_path, fs) ==
    IF fs[file_path].t = "absent"
    THEN [obj |-> None, raised |-> "FileNotFoundError"]
    ELSE [obj |-> fs[file_path].v, raised |-> "none"]

\* save: the files after self.save(file_path), and what it raised
save(self, file_path, fs) ==
    LET conf == get_config(self)
        weights == get_weights(self)
        full_info == [class_name |-> self.cls, module_name |-> "kgcnn.scaler.scaler",
                      config |-> conf, weights |-> weights]
    IN  save_json_file(full_info, JsonPath(file_path), fs)

\* Variant: the weights of the file are not set.
load_config_only(self, file_path, fs) ==
    LET f == load_json_file(file_path, fs)
    IN  IF f.raised # "none" THEN [self |-> self, ret |-> None, raised |-> f.raised]
        ELSE [self |-> set_config(self, f.obj.config), ret |-> Self, raised |-> "none"]

\* load: load_json_file(file_path), set_config, set_weights, return self
load(self, file_path, fs) ==
    LET f == load_json_file(file_path, fs)
    IN  IF f.raised # "none" THEN [self |-> self, ret |-> None, raised |-> f.raised]
        ELSE LET full_info == f.obj
             IN  [self |-> set_weights(set_config(self, full_info.config), full_info.weights),
                  ret |-> Self, raised |-> "none"]

(***************************************************************************)
(* StandardScaler: X is scaled, y and atomic_number are passed along or    *)
(* dropped as the code does.                                               *)
(***************************************************************************)
StandardScaler_partial_fit(self, X, y, sample_weight, atomic_number) ==
    sk_partial_fit(self, X, y, sample_weight)

\* sklearn's fit is _reset() and self.partial_fit(X, y, sample_weight)
StandardScaler_fit(self, X, y, sample_weight, atomic_number) ==
    StandardScaler_partial_fit(_reset(self), X, y, sample_weight, None)

StandardScaler_transform(self, X, atomic_number) == sk_transform(self, X)

StandardScaler_inverse_transform(self, X, atomic_number) == sk_inverse_transform(self, X)

\* TransformerMixin.fit_transform: self.fit(X, **fit_params).transform(X) when
\* y is None, else self.fit(X, y, **fit_params), and fit takes y by keyword only
StandardScaler_fit_transform(self, X, y, atomic_number, sample_weight) ==
    IF y.t # "None" THEN [self |-> self, ret |-> None, raised |-> "TypeError"]
    ELSE LET f == StandardScaler_fit(self, X, None, sample_weight, None)
         IN  IF f.raised # "none" THEN f ELSE StandardScaler_transform(f.self, X, None)

(***************************************************************************)
(* StandardLabelScaler: y is scaled.                                       *)
(***************************************************************************)
\* _assert_has_y
HasY(y) == y.t # "None"

\* Variant: X is scaled when it is given.
StandardLabelScaler_partial_fit_uses_X(self, y, X, sample_weight, atomic_number) ==
    IF ~HasY(y) THEN [self |-> self, ret |-> None, raised |-> "ValueError"]
    ELSE sk_partial_fit(self, IF X.t # "None" THEN X ELSE y, None, sample_weight)

StandardLabelScaler_partial_fit(self, y, X, sample_weight, atomic_number) ==
    IF ~HasY(y) THEN [self |-> self, ret |-> None, raised |-> "ValueError"]
    ELSE sk_partial_fit(self, y, None, sample_weight)

\* Variant: the statistics are reset before y is looked at.
StandardLabelScaler_fit_reset_first(self, y, X, sample_weight, atomic_number) ==
    IF ~HasY(y) THEN [self |-> _reset(self), ret |-> None, raised |-> "ValueError"]
    ELSE StandardLabelScaler_partial_fit(_reset(self), y, X, sample_weight, None)

StandardLabelScaler_fit(self, y, X, sample_weight, atomic_number) ==
    IF ~HasY(y) THEN [self |-> self, ret |-> None, raised |-> "ValueError"]
    ELSE StandardLabelScaler_partial_fit(_reset(self), y, X, sample_weight, None)

StandardLabelScaler_transform(self, y, X, atomic_number) == sk_transform(self, y)

StandardLabelScaler_inverse_transform(self, X, y, atomic_number) == sk_inverse_transform(self, y)

\* TransformerMixin.fit_transform(X=y, y=None): self.fit(y, **fit_params).transform(y)
StandardLabelScaler_fit_transform(self, y, X, atomic_number, sample_weight) ==
    LET f == StandardLabelScaler_fit(self, y, None, sample_weight, None)
    IN  IF f.raised # "none" THEN f ELSE StandardLabelScaler_transform(f.self, y, None, None)

(***************************************************************************)
(* kgcnn.data.moleculenet: MoleculeNetDataset.prepare_data.                *)
(*                                                                         *)
(* A directory holds csv files and mol.json.  A csv file is the table      *)
(* column -> values, mol.json the list of mol blocks, a mol block being    *)
(* kept as the smiles and the options it was made from.                    *)
(***************************************************************************)
MaxPrepareCalls == 2    \* calls of prepare_data on the dataset

mol_filename == "mol.json"

Directories == {"data1", "data2"}
CsvNames == {"a.csv", "b.csv"}
FileNames == CsvNames \cup {mol_filename}

\* The csv files of the directories: data1 has both, data2 only a.csv.
CsvFile(dir, name) ==
    IF name = "a.csv" THEN PyDict([smiles |-> <<"C", "CO">>])
    ELSE IF dir = "data1" THEN PyDict([smiles |-> <<"N">>])
    ELSE Absent

\* A mol.json left by an earlier run of the program.
EarlierMolFile == PyList(<<[smiles |-> "C", add_hydrogen |-> TRUE, make_conformers |-> TRUE]>>)

NoDisk == [dir \in Directories |-> [name \in FileNames |-> Absent]]
NoDataset == [file_name |-> Absent, data_directory |-> Absent, dataset_name |-> Absent]
NoPrepare == [overwrite |-> FALSE, data_directory |-> None, existed |-> FALSE,
              read_csv |-> FALSE, wrote |-> FALSE, ret |-> None, raised |-> "none"]

\* The values of the file_name and of the data_directory arguments.
FileNameArguments == {PyStr(name) : name \in CsvNames} \cup {None}
DirectoryArguments == {PyStr(dir) : dir \in Directories} \cup {None}

\* os.path.exists(os.path.join(data_directory, name))
exists(fs, data_directory, name) == fs[data_directory][name].t # "absent"

\* _smiles_to_mol_list: one mol block per smiles
_smiles_to_mol_list(smiles, add_hydrogen, make_conformers) ==
    PyList([i \in 1 .. Len(smiles) |->
              [smiles |-> smiles[i], add_hydrogen |-> add_hydrogen,
               make_conformers |-> make_conformers]])

\* kgcnn.utils.data.save_json_file(mb, path): the file holds the list
save_mol_json_file(mb, data_directory, name, fs) ==
    [fs EXCEPT ![data_directory][name] = mb]

\* What a prepare_data call gives that did not get to the csv file.
Returned(self, fs, existed, ret, raised) ==
    [self |-> self, fs |-> fs, existed |-> existed, read_csv |-> FALSE, wrote |-> FALSE,
     ret |-> ret, raised |-> raised]

\* Variant: the structures are computed whether or not mol.json is there.
prepare_data_always(self, fs, file_name, data_directory, dataset_name, overwrite, smiles_column_name, make_conformers, add_hydrogen) ==
    LET self1 == [file_name |-> IF file_name # None THEN file_name ELSE self.file_name,
                  data_directory |-> IF data_directory # None THEN data_directory
                                     ELSE self.data_directory,
                  dataset_name |-> IF dataset_name # None THEN dataset_name
                                   ELSE self.dataset_name]
        dir == self1.data_directory.v
    IN  IF self1.data_directory = None THEN Returned(self1, fs, FALSE, None, "TypeError")
        ELSE IF self1.file_name = None
             THEN Returned(self1, fs, exists(fs, dir, mol_filename), None, "TypeError")
        ELSE IF ~exists(fs, dir, self1.file_name.v)
             THEN Returned(self1, fs, exists(fs, dir, mol_filename), None, "FileNotFoundError")
        ELSE LET data == fs[dir][self1.file_name.v].v
             IN  [self |-> self1,
                  fs |-> save_mol_json_file(
                            _smiles_to_mol_list(data.smiles, add_hydrogen, make_conformers),
                            dir, mol_filename, fs),
                  existed |-> exists(fs, dir, mol_filename),
                  read_csv |-> TRUE, wrote |-> TRUE, ret |-> Self, raised |-> "none"]

\* prepare_data: the dataset object and the files after the call, whether
\* mol.json existed, whether the csv file was read and mol.json written,
\* what was returned and raised
prepare_data(self, fs, file_name, data_directory, dataset_name, overwrite, smiles_column_name, make_conformers, add_hydrogen) ==
    LET self1 == [file_name |-> IF file_name # None THEN file_name ELSE self.file_name,
                  data_directory |-> IF data_directory # None THEN data_directory
                                     ELSE self.data_directory,
                  dataset_name |-> IF dataset_name # None THEN dataset_name
                                   ELSE self.dataset_name]
        dir == self1.data_directory.v
    IN  IF self1.data_directory = None THEN Returned(self1, fs, FALSE, None, "TypeError")
        ELSE IF exists(fs, dir, mol_filename) /\ ~overwrite
             THEN Returned(self1, fs, TRUE, Self, "none")
        ELSE IF self1.file_name = None
             THEN Returned(self1, fs, exists(fs, dir, mol_filename), None, "TypeError")
        ELSE IF ~exists(fs, dir, self1.file_name.v)
             THEN Returned(self1, fs, exists(fs, dir, mol_filename), None, "FileNotFoundError")
        ELSE LET data == fs[dir][self1.file_name.v].v
             IN  IF smiles_column_name \notin DOMAIN data
                 THEN [Returned(self1, fs, exists(fs, dir, mol_filename), None, "KeyError")
                          EXCEPT !.read_csv = TRUE]
                 ELSE [self |-> self1,
                       fs |-> save_mol_json_file(
                                 _smiles_to_mol_list(data[smiles_column_name],
                                                     add_hydrogen, make_conformers),
                                 dir, mol_filename, fs),
                       existed |-> exists(fs, dir, mol_filename),
                       read_csv |-> TRUE, wrote |-> TRUE, ret |-> Self, raised |-> "none"]

\* dataset = MoleculeNetDataset(data_directory, dataset_name, file_name), on
\* a disk where an earlier run may have left a mol.json
NewDataset ==
    /\ dataset = NoDataset
    /\ \E file_name \in FileNameArguments, data_directory \in DirectoryArguments,
          left \in SUBSET Directories :
          /\ dataset' = [file_name |-> file_name, data_directory |-> data_directory,
                         dataset_name |-> None]
          /\ disk' = [dir \in Directories |-> [name \in FileNames |->
                         IF name = mol_filename
                         THEN (IF dir \in left THEN EarlierMolFile ELSE Absent)
                         ELSE CsvFile(dir, name)]]
    /\ UNCHANGED <<prep_call, n_prep, notDsVars>>

\* dataset.prepare_data(...)
PrepareData ==
    /\ dataset # NoDataset
    /\ n_prep < MaxPrepareCalls
    /\ \E file_name \in FileNameArguments, data_directory \in DirectoryArguments,
          dataset_name \in {None, PyStr("Lipop")}, overwrite \in BOOLEAN,
          smiles_column_name \in {"smiles", "mol"},
          make_conformers \in BOOLEAN, add_hydrogen \in BOOLEAN :
          LET r == prepare_data(dataset, disk, file_name, data_directory, dataset_name,
                                overwrite, smiles_column_name, make_conformers, add_hydrogen)
          IN  /\ dataset' = r.self
              /\ disk' = r.fs
              /\ prep_call' = [overwrite |-> overwrite,
                               data_directory |-> r.self.data_directory,
                               existed |-> r.existed, read_csv |-> r.read_csv,
                               wrote |-> r.wrote, ret |-> r.ret, raised |-> r.raised]
    /\ n_prep' = n_prep + 1
    /\ UNCHANGED notDsVars

NextDataset == NewDataset \/ PrepareData

(***************************************************************************)
(* training/train_lipop.py and training/train_proteins.py: the dataset     *)
(* steps and the k-fold loop.                                              *)
(***************************************************************************)
MaxLength == 4      \* graphs of the dataset
MaxSplits == 3      \* n_splits of the KFold configuration

Scripts == {"train_lipop", "train_proteins"}

DataKeys == {"set_range", "range", "set_edge_indices_reverse_pairs"}

\* The value a hyper['data'] dictionary has under the key.
DataValue(key) ==
    IF key = "set_edge_indices_reverse_pairs" THEN PyBool(TRUE)
    ELSE PyDict([max_distance |-> 4])

NoData == [key \in DataKeys |-> Absent]
NoGraphs == [length |-> 0, range |-> None, reverse_pairs |-> FALSE]
NotRaised == [at |-> "none", exception |-> "none"]

\* key in hyper_data
HasKey(d, key) == d[key].t # "absent"

\* dataset.set_range(**params)
set_range(self, params) == [self EXCEPT !.range = params]

\* dataset.set_edge_indices_reverse_pairs()
set_edge_indices_reverse_pairs(self) == [self EXCEPT !.reverse_pairs = TRUE]

\* The sequences that hold each of 0 .. n-1 once.
Shuffles(n) ==
    {p \in [1 .. n -> 0 .. n - 1] : \A i, j \in 1 .. n : p[i] = p[j] => i = j}

\* np.arange(n)
arange(n) == [i \in 1 .. n |-> i - 1]

\* KFold._iter_test_indices: the first n_samples % n_splits folds have one
\* sample more than n_samples // n_splits
fold_size(n_samples, n_splits, fold) ==
    (n_samples \div n_splits) + (IF fold <= n_samples % n_splits THEN 1 ELSE 0)

RECURSIVE fold_start(_, _, _)
fold_start(n_samples, n_splits, fold) ==
    IF fold = 1 THEN 0
    ELSE fold_start(n_samples, n_splits, fold - 1) + fold_size(n_samples, n_splits, fold - 1)

\* The test mask of the fold: the samples indices[start:stop]
test_mask(inds, n_splits, fold) ==
    LET start == fold_start(Len(inds), n_splits, fold)
        stop == start + fold_size(Len(inds), n_splits, fold)
    IN  {inds[i] : i \in start + 1 .. stop}

\* np.arange(n)[mask]: the samples of the mask in rising order
RECURSIVE Masked(_, _)
Masked(n, mask) ==
    IF n = 0 THEN <<>>
    ELSE IF n - 1 \in mask THEN Append(Masked(n - 1, mask), n - 1) ELSE Masked(n - 1, mask)

\* Variant: the train indices are all samples.
split_fold_train_all(inds, n_splits, fold) ==
    [train_index |-> Masked(Len(inds), 0 .. Len(inds) - 1),
     test_index |-> Masked(Len(inds), test_mask(inds, n_splits, fold))]

\* BaseCrossValidator.split: train_index and test_index of the fold
split_fold(inds, n_splits, fold) ==
    [train_index |-> Masked(Len(inds), (0 .. Len(inds) - 1) \ test_mask(inds, n_splits, fold)),
     test_index |-> Masked(Len(inds), test_mask(inds, n_splits, fold))]

\* The script ends with the exception.
Abort(exception) ==
    /\ pc' = "aborted"
    /\ script_raised' = [at |-> pc, exception |-> exception]

\* python train_*.py: hyper is loaded and the dataset is made
StartScript ==
    /\ script = "none"
    /\ \E name \in Scripts, keys \in SUBSET DataKeys, length \in 0 .. MaxLength,
          with_kfold \in BOOLEAN, n_splits \in 1 .. MaxSplits, shuffle \in BOOLEAN :
          /\ script' = name
          /\ hyper_data' = [key \in DataKeys |-> IF key \in keys THEN DataValue(key) ELSE Absent]
          /\ k_fold_info' = IF with_kfold
                            THEN PyDict([n_splits |-> n_splits, shuffle |-> shuffle])
                            ELSE Absent
          /\ graphs' = [length |-> length, range |-> None, reverse_pairs |-> FALSE]
          /\ pc' = IF name = "train_lipop" THEN "set_range" ELSE "set_edge_indices_reverse_pairs"
    /\ UNCHANGED <<indices, n_body, train_index, test_index, all_test_index, script_raised,
                   notTrVars>>

\* if "set_range" in hyper_data: dataset.set_range(**hyper_data["range"])
SetRange ==
    /\ pc = "set_range"
    /\ IF HasKey(hyper_data, "set_range")
       THEN IF HasKey(hyper_data, "range")
            THEN /\ graphs' = set_range(graphs, hyper_data["range"])
                 /\ pc' = "set_edge_indices_reverse_pairs"
                 /\ UNCHANGED script_raised
            ELSE Abort("KeyError") /\ UNCHANGED graphs
       ELSE /\ pc' = "set_edge_indices_reverse_pairs"
            /\ UNCHANGED <<graphs, script_raised>>
    /\ UNCHANGED <<script, hyper_data, k_fold_info, indices, n_body, train_index, test_index,
                   all_test_index, notTrVars>>

\* if "set_edge_indices_reverse_pairs" in hyper_data:
\*     dataset.set_edge_indices_reverse_pairs()
SetReversePairs ==
    /\ pc = "set_edge_indices_reverse_pairs"
    /\ graphs' = IF HasKey(hyper_data, "set_edge_indices_reverse_pairs")
                 THEN set_edge_indices_reverse_pairs(graphs) ELSE graphs
    /\ pc' = "KFold"
    /\ UNCHANGED <<script, hyper_data, k_fold_info, indices, n_body, train_index, test_index,
                   all_test_index, script_raised, notTrVars>>

\* k_fold_info = hyper["training"]["KFold"]; kf = KFold(**k_fold_info);
\* split_indices = kf.split(X=np.arange(data_length)[:, None]), with the
\* order the generator will shuffle the samples into
MakeSplit ==
    /\ pc = "KFold"
    /\ IF k_fold_info = Absent THEN Abort("KeyError") /\ UNCHANGED indices
       ELSE IF k_fold_info.v.n_splits <= 1 THEN Abort("ValueError") /\ UNCHANGED indices
       ELSE /\ \E inds \in (IF k_fold_info.v.shuffle THEN Shuffles(graphs.length)
                             ELSE {arange(graphs.length)}) : indices' = inds
            /\ pc' = "for"
            /\ UNCHANGED script_raised
    /\ UNCHANGED <<script, hyper_data, k_fold_info, graphs, n_body, train_index, test_index,
                   all_test_index, notTrVars>>

\* for train_index, test_index in split_indices: ... the body, to
\* all_test_index.append([train_index, test_index])
LoopBody ==
    /\ pc = "for"
    /\ n_body < k_fold_info.v.n_splits
    /\ IF k_fold_info.v.n_splits > graphs.length
       THEN /\ Abort("ValueError")
            /\ UNCHANGED <<n_body, train_index, test_index, all_test_index>>
       ELSE LET fold == split_fold(indices, k_fold_info.v.n_splits, n_body + 1)
            IN  /\ train_index' = fold.train_index
                /\ test_index' = fold.test_index
                /\ all_test_index' = Append(all_test_index,
                                            <<fold.train_index, fold.test_index>>)
                /\ n_body' = n_body + 1
                /\ UNCHANGED <<pc, script_raised>>
    /\ UNCHANGED <<script, hyper_data, k_fold_info, graphs, indices, notTrVars>>

\* split_indices is exhausted: the loop ends and the results are saved
LoopEnd ==
    /\ pc = "for"
    /\ n_body = k_fold_info.v.n_splits
    /\ pc' = "done"
    /\ UNCHANGED <<script, hyper_data, k_fold_info, graphs, indices, n_body, train_index,
                   test_index, all_test_index, script_raised, notTrVars>>

NextTraining == StartScript \/ SetRange \/ SetReversePairs \/ MakeSplit \/ LoopBody \/ LoopEnd

(***************************************************************************)
(* State machine of the scalers: a scaler is constructed, fitted and used  *)
(* on up to MaxSamples samples, saved, and a new scaler loads the file. The *)
(* twin is a second scaler that gets the same calls with the same data     *)
(* and sample_weight, and with values in the arguments documented as       *)
(* ignored (X or y, atomic_number), which the scaler leaves at None.       *)
(***************************************************************************)
MaxSamples == 3     \* samples a scaler is given in all its calls together

Classes == {"StandardScaler", "StandardLabelScaler"}

DataValues == {0, 2}

\* The arrays of shape (k, 1), 1 <= k <= n, and None.
DataInputs(n) ==
    IF n = 0 THEN {}
    ELSE {None} \cup UNION {{NdArray(a) : a \in [1 .. k -> DataValues]} : k \in 1 .. n}

\* The samples of the data, a call without data counting as one.
NSamples(data) == IF data.t = "None" THEN 1 ELSE Len(data.v)

\* sample_weight for the data: None, or the weights 1, 2, ... of its samples.
SampleWeights(data) ==
    IF data.t = "None" THEN {None} ELSE {None, PyList([i \in 1 .. Len(data.v) |-> i])}

\* What the twin is given in the argument that is not scaled (X of the label
\* scaler, y of the other one) and in atomic_number: a value for one of them.
IgnoredArguments ==
    {[other |-> NdArray(<<5>>), atomic_number |-> None],
     [other |-> None, atomic_number |-> PyList(<<6>>)]}

Paths == {[stem |-> "scaler", ext |-> e] : e \in {".json", ".npz"}}

Ops == {"fit", "partial_fit", "fit_transform", "transform", "inverse_transform"}

\* The method op of the class of self, called with the data in the argument
\* that is scaled and other in the one that is not.
Call(self, op, data, other, sample_weight, atomic_number) ==
    IF self.cls = "StandardScaler"
    THEN CASE op = "fit" -> StandardScaler_fit(self, data, other, sample_weight, atomic_number)
           [] op = "partial_fit" ->
                StandardScaler_partial_fit(self, data, other, sample_weight, atomic_number)
           [] op = "fit_transform" ->
                StandardScaler_fit_transform(self, data, other, atomic_number, sample_weight)
           [] op = "transform" -> StandardScaler_transform(self, data, atomic_number)
           [] op = "inverse_transform" ->
                StandardScaler_inverse_transform(self, data, atomic_number)
    ELSE CASE op = "fit" -> StandardLabelScaler_fit(self, data, other, sample_weight, atomic_number)
           [] op = "partial_fit" ->
                StandardLabelScaler_partial_fit(self, data, other, sample_weight, atomic_number)
           [] op = "fit_transform" ->
                StandardLabelScaler_fit_transform(self, data, other, atomic_number, sample_weight)
           [] op = "transform" -> StandardLabelScaler_transform(self, data, other, atomic_number)
           [] op = "inverse_transform" ->
                StandardLabelScaler_inverse_transform(self, other, data, atomic_number)

NoCall == [op |-> "none", data |-> None, sample_weight |-> None, file_path |-> None,
           ret |-> None, raised |-> "none"]
NoTwinCall == [other |-> None, atomic_number |-> None, ret |-> None, raised |-> "none"]
NoFiles == [p \in Paths |-> Absent]
NoLoad == [file_path |-> [stem |-> "", ext |-> ""], ret |-> None, raised |-> "none"]
NotConstructed == NewScaler("none", TRUE, TRUE, TRUE)

NothingSaved == files = NoFiles

\* One call of the method op: on the scaler with the ignored arguments left
\* at their default None, on the twin with values for them.
CallOp(op) ==
    /\ NothingSaved
    /\ \E data \in DataInputs(MaxSamples - n_given) :
       \E sample_weight \in (IF op \in {"transform", "inverse_transform"}
                             THEN {None} ELSE SampleWeights(data)),
          ignored \in IgnoredArguments :
          LET r1 == Call(scaler, op, data, None, sample_weight, None)
              r2 == Call(twin, op, data, ignored.other, sample_weight, ignored.atomic_number)
          IN  /\ scaler' = r1.self
              /\ twin' = r2.self
              /\ scl_call' = [op |-> op, data |-> data, sample_weight |-> sample_weight,
                              file_path |-> None, ret |-> r1.ret, raised |-> r1.raised]
              /\ twin_call' = [other |-> ignored.other, atomic_number |-> ignored.atomic_number,
                               ret |-> r2.ret, raised |-> r2.raised]
              /\ n_given' = n_given + NSamples(data)
    /\ UNCHANGED <<files, loaded, load_call, notSclVars>>

Fit == CallOp("fit")
PartialFit == CallOp("partial_fit")
FitTransform == CallOp("fit_transform")
Transform == CallOp("transform")
InverseTransform == CallOp("inverse_transform")

\* scaler.save(file_path)
Save ==
    /\ NothingSaved
    /\ \E file_path \in Paths :
          LET r == save(scaler, file_path, files)
          IN  /\ files' = r.fs
              /\ scl_call' = [op |-> "save", data |-> None, sample_weight |-> None,
                              file_path |-> file_path, ret |-> None, raised |-> r.raised]
    /\ twin_call' = NoTwinCall
    /\ UNCHANGED <<scaler, twin, n_given, loaded, load_call, notSclVars>>

\* new_scaler = Class(); new_scaler.load(file_path), once a scaler was saved
Load ==
    /\ ~NothingSaved
    /\ load_call = NoLoad
    /\ \E file_path \in Paths, cls \in Classes :
          LET r == load(NewScaler(cls, TRUE, TRUE, TRUE), file_path, files)
          IN  /\ loaded' = r.self
              /\ load_call' = [file_path |-> file_path, raised |-> r.raised, ret |-> r.ret]
    /\ UNCHANGED <<scaler, twin, scl_call, twin_call, n_given, files, notSclVars>>

NextScaler ==
    Fit \/ PartialFit \/ FitTransform \/ Transform \/ InverseTransform \/ Save \/ Load

(***************************************************************************)
(* Specifications: one per subsystem, from the same initial state.         *)
(***************************************************************************)
\* An empty batch; no function of kgcnn.utils.adj is involved.
InitCasting ==
    /\ batch_nodes = <<>>
    /\ batch_edges = <<>>
    /\ nod = RaggedFromNested(<<>>)
    /\ edgeind = RaggedFromNested(<<>>)
    /\ calls = <<>>
    /\ cast = NoCast
    /\ layer_error = "none"
    /\ adj_fn = "none"
    /\ adj_arg = NoMatrix
    /\ adj_add_identity = TRUE
    /\ adj_ret = "None"
    /\ adj_raised = "none"
    /\ scaler = NotConstructed
    /\ twin = NotConstructed
    /\ scl_call = NoCall
    /\ twin_call = NoTwinCall
    /\ n_given = 0
    /\ files = NoFiles
    /\ loaded = NotConstructed
    /\ load_call = NoLoad
    /\ dataset = NoDataset
    /\ disk = NoDisk
    /\ prep_call = NoPrepare
    /\ n_prep = 0
    /\ script = "none"
    /\ pc = "none"
    /\ hyper_data = NoData
    /\ k_fold_info = Absent
    /\ graphs = NoGraphs
    /\ indices = <<>>
    /\ n_body = 0
    /\ train_index = <<>>
    /\ test_index = <<>>
    /\ all_test_index = <<>>
    /\ script_raised = NotRaised

SpecCasting == InitCasting /\ [][NextCasting]_vars

\* A matrix argument of shape (n, m), n, m <= MaxN, of either dtype and any
\* format, and no call yet; no casting layer is involved.
InitAdj ==
    /\ batch_nodes = <<>>
    /\ batch_edges = <<>>
    /\ nod = RaggedFromNested(<<>>)
    /\ edgeind = RaggedFromNested(<<>>)
    /\ calls = <<>>
    /\ cast = NoCast
    /\ layer_error = "none"
    /\ adj_fn = "none"
    /\ \E n \in 0 .. MaxN, m \in 0 .. MaxN, d \in Dtypes, f \in Formats :
       \E M \in [Positions(n, m) -> Weights(d)] :
          adj_arg = [fmt |-> f, dtype |-> d, shape |-> <<n, m>>, M |-> M]
    /\ adj_add_identity = TRUE
    /\ adj_ret = "None"
    /\ adj_raised = "none"
    /\ scaler = NotConstructed
    /\ twin = NotConstructed
    /\ scl_call = NoCall
    /\ twin_call = NoTwinCall
    /\ n_given = 0
    /\ files = NoFiles
    /\ loaded = NotConstructed
    /\ load_call = NoLoad
    /\ dataset = NoDataset
    /\ disk = NoDisk
    /\ prep_call = NoPrepare
    /\ n_prep = 0
    /\ script = "none"
    /\ pc = "none"
    /\ hyper_data = NoData
    /\ k_fold_info = Absent
    /\ graphs = NoGraphs
    /\ indices = <<>>
    /\ n_body = 0
    /\ train_index = <<>>
    /\ test_index = <<>>
    /\ all_test_index = <<>>
    /\ script_raised = NotRaised

SpecAdj == InitAdj /\ [][NextAdj]_vars

\* A scaler of either class just constructed, with any parameters; no file,
\* no casting layer and no function of kgcnn.utils.adj is involved.
InitScaler ==
    /\ batch_nodes = <<>>
    /\ batch_edges = <<>>
    /\ nod = RaggedFromNested(<<>>)
    /\ edgeind = RaggedFromNested(<<>>)
    /\ calls = <<>>
    /\ cast = NoCast
    /\ layer_error = "none"
    /\ adj_fn = "none"
    /\ adj_arg = NoMatrix
    /\ adj_add_identity = TRUE
    /\ adj_ret = "None"
    /\ adj_raised = "none"
    /\ \E cls \in Classes, copy \in BOOLEAN, with_mean \in BOOLEAN, with_std \in BOOLEAN :
          /\ scaler = NewScaler(cls, copy, with_mean, with_std)
          /\ twin = NewScaler(cls, copy, with_mean, with_std)
    /\ scl_call = NoCall
    /\ twin_call = NoTwinCall
    /\ n_given = 0
    /\ files = NoFiles
    /\ loaded = NotConstructed
    /\ load_call = NoLoad
    /\ dataset = NoDataset
    /\ disk = NoDisk
    /\ prep_call = NoPrepare
    /\ n_prep = 0
    /\ script = "none"
    /\ pc = "none"
    /\ hyper_data = NoData
    /\ k_fold_info = Absent
    /\ graphs = NoGraphs
    /\ indices = <<>>
    /\ n_body = 0
    /\ train_index = <<>>
    /\ test_index = <<>>
    /\ all_test_index = <<>>
    /\ script_raised = NotRaised

SpecScaler == InitScaler /\ [][NextScaler]_vars

\* Nothing is constructed yet.
InitDataset ==
    /\ batch_nodes = <<>>
    /\ batch_edges = <<>>
    /\ nod = RaggedFromNested(<<>>)
    /\ edgeind = RaggedFromNested(<<>>)
    /\ calls = <<>>
    /\ cast = NoCast
    /\ layer_error = "none"
    /\ adj_fn = "none"
    /\ adj_arg = NoMatrix
    /\ adj_add_identity = TRUE
    /\ adj_ret = "None"
    /\ adj_raised = "none"
    /\ scaler = NotConstructed
    /\ twin = NotConstructed
    /\ scl_call = NoCall
    /\ twin_call = NoTwinCall
    /\ n_given = 0
    /\ files = NoFiles
    /\ loaded = NotConstructed
    /\ load_call = NoLoad
    /\ dataset = NoDataset
    /\ disk = NoDisk
    /\ prep_call = NoPrepare
    /\ n_prep = 0
    /\ script = "none"
    /\ pc = "none"
    /\ hyper_data = NoData
    /\ k_fold_info = Absent
    /\ graphs = NoGraphs
    /\ indices = <<>>
    /\ n_body = 0
    /\ train_index = <<>>
    /\ test_index = <<>>
    /\ all_test_index = <<>>
    /\ script_raised = NotRaised

SpecDataset == InitDataset /\ [][NextDataset]_vars

\* No script runs yet.
InitTraining ==
    /\ batch_nodes = <<>>
    /\ batch_edges = <<>>
    /\ nod = RaggedFromNested(<<>>)
    /\ edgeind = RaggedFromNested(<<>>)
    /\ calls = <<>>
    /\ cast = NoCast
    /\ layer_error = "none"
    /\ adj_fn = "none"
    /\ adj_arg = NoMatrix
    /\ adj_add_identity = TRUE
    /\ adj_ret = "None"
    /\ adj_raised = "none"
    /\ scaler = NotConstructed
    /\ twin = NotConstructed
    /\ scl_call = NoCall
    /\ twin_call = NoTwinCall
    /\ n_given = 0
    /\ files = NoFiles
    /\ loaded = NotConstructed
    /\ load_call = NoLoad
    /\ dataset = NoDataset
    /\ disk = NoDisk
    /\ prep_call = NoPrepare
    /\ n_prep = 0
    /\ script = "none"
    /\ pc = "none"
    /\ hyper_data = NoData
    /\ k_fold_info = Absent
    /\ graphs = NoGraphs
    /\ indices = <<>>
    /\ n_body = 0
    /\ train_index = <<>>
    /\ test_index = <<>>
    /\ all_test_index = <<>>
    /\ script_raised = NotRaised

SpecTraining == InitTraining /\ [][NextTraining]_vars

(***************************************************************************)
(* Claims on the casting layers.                                           *)
(***************************************************************************)
SampleToBatch == [from_indexing |-> "sample", to_indexing |-> "batch"]
BatchToSample == [from_indexing |-> "batch", to_indexing |-> "sample"]

\* Number of nodes of the graphs that precede graph g (1-based) in the batch.
NodesBefore(g) == SumSeq([h \in 1 .. (g - 1) |-> Len(batch_nodes[h])])

\* C1: after ChangeIndexing from 'sample' to 'batch' the output keeps the rows
\* of the input, and both entries of every edge of graph g are the input
\* entries plus the number of nodes of the graphs before g.
C1_SampleToBatchShift ==
    calls = <<SampleToBatch>> =>
        /\ NRows(edgeind) = Len(batch_edges)
        /\ \A g \in 1 .. Len(batch_edges) :
              /\ Len(Row(edgeind, g)) = Len(batch_edges[g])
              /\ \A k \in 1 .. Len(batch_edges[g]) :
                    Row(edgeind, g)[k] = <<batch_edges[g][k][1] + NodesBefore(g),
                                           batch_edges[g][k][2] + NodesBefore(g)>>

\* A second graph with two edges behind a first graph with two nodes has been shifted.
C1_Witness ==
    /\ calls = <<SampleToBatch>>
    /\ Len(batch_edges) = 2
    /\ Len(batch_nodes[1]) = 2
    /\ batch_edges[2] = <<<<0, 1>>, <<1, 1>>>>
    /\ Row(edgeind, 2) = <<<<2, 3>>, <<3, 3>>>>

\* C2: sample -> batch followed by batch -> sample with the same node tensor,
\* and batch -> sample followed by sample -> batch, give back the edge indices
\* the first layer was called on.
C2_RoundTrip ==
    (calls = <<SampleToBatch, BatchToSample>> \/ calls = <<BatchToSample, SampleToBatch>>)
        => edgeind = RaggedFromNested(batch_edges)

\* A round trip over a batch whose second graph has an edge and a non-zero offset.
C2_Witness ==
    /\ calls = <<SampleToBatch, BatchToSample>>
    /\ Len(batch_edges) = 2
    /\ Len(batch_nodes[1]) > 0
    /\ Len(batch_edges[2]) > 0
    /\ edgeind = RaggedFromNested(batch_edges)

\* The nested list the last CastRaggedToValues call was given as a ragged tensor.
CastInput == IF cast.of = "nodes" THEN batch_nodes ELSE batch_edges

ItemsBefore(L, g) == SumSeq([h \in 1 .. (g - 1) |-> Len(L[h])])

\* 0-based index of the graph that holds the k-th (1-based) item of L.
GraphOfItem(L, k) ==
    CHOOSE i \in 0 .. (Len(L) - 1) :
        ItemsBefore(L, i + 1) < k /\ k <= ItemsBefore(L, i + 1) + Len(L[i + 1])

\* C3: CastRaggedToValues returns the items of all graphs in batch order and
\* the partition of the requested scheme: row_length the number of items per
\* graph, row_splits the start offsets from 0 to len(values), value_rowids
\* the graph index of every value; the three schemes agree.
C3_CastValuesAndPartition ==
    (cast # NoCast /\ cast.raised = "none") =>
        LET L == CastInput
            t == RaggedFromNested(L)
            p == cast.partition
            rl == CastRaggedToValues_call("row_length", t).partition
            rs == CastRaggedToValues_call("row_splits", t).partition
            ri == CastRaggedToValues_call("value_rowids", t).partition
        IN  /\ cast.values = Flatten(L)
            /\ cast.partition_type = "row_length" =>
                  /\ Len(p) = Len(L)
                  /\ \A i \in 1 .. Len(L) : p[i] = Len(L[i])
                  /\ SumSeq(p) = Len(cast.values)
            /\ cast.partition_type = "row_splits" =>
                  /\ Len(p) = Len(L) + 1
                  /\ p[1] = 0
                  /\ p[Len(p)] = Len(cast.values)
                  /\ \A i \in 1 .. Len(L) : p[i + 1] = p[i] + Len(L[i])
            /\ cast.partition_type = "value_rowids" =>
                  /\ Len(p) = Len(cast.values)
                  /\ \A k \in 1 .. Len(p) : p[k] = GraphOfItem(L, k)
            /\ \A i \in 1 .. Len(L) :
                  /\ rl[i] = rs[i + 1] - rs[i]
                  /\ rl[i] = Cardinality({k \in 1 .. Len(ri) : ri[k] = i - 1})

\* value_rowids of the edges of a batch of two graphs with edges in both.
C3_Witness ==
    /\ cast.raised = "none"
    /\ cast.partition_type = "value_rowids"
    /\ cast.of = "edge_indices"
    /\ cast.partition = <<0, 1>>
    /\ Len(batch_nodes[1]) = 2

\* Every edge index of every graph of the batch is a node of that graph.
EdgesInRange ==
    \A g \in 1 .. Len(batch_edges) : \A k \in 1 .. Len(batch_edges[g]) :
        /\ batch_edges[g][k][1] \in 0 .. Len(batch_nodes[g]) - 1
        /\ batch_edges[g][k][2] \in 0 .. Len(batch_nodes[g]) - 1

\* The node indices the edges of graph g address in the output.
Addressed(g) ==
    UNION {{Row(edgeind, g)[k][1], Row(edgeind, g)[k][2]} : k \in 1 .. Len(Row(edgeind, g))}

\* C14: if every input edge index of graph g lies in [0, n_g), then after
\* ChangeIndexing from 'sample' to 'batch' every output index of g lies in
\* [offset_g, offset_g + n_g), offset_g being the number of nodes before g:
\* all output indices are below the node count of the batch, and edges of
\* different graphs address different nodes.
C14_DisjointAddressing ==
    (calls = <<SampleToBatch>> /\ EdgesInRange) =>
        /\ NRows(edgeind) = Len(batch_nodes)
        /\ \A g \in 1 .. Len(batch_nodes) :
              /\ Addressed(g) \subseteq NodesBefore(g) .. NodesBefore(g) + Len(batch_nodes[g]) - 1
              /\ \A i \in Addressed(g) : i < Len(Flatten(batch_nodes))
              /\ \A h \in 1 .. Len(batch_nodes) : h # g => Addressed(g) \cap Addressed(h) = {}

\* Two graphs with an edge each were shifted, the second by the nodes of the first.
C14_Witness ==
    /\ calls = <<SampleToBatch>>
    /\ EdgesInRange
    /\ Len(batch_nodes) = 2
    /\ Len(batch_nodes[1]) > 0
    /\ Addressed(1) # {}
    /\ Addressed(2) # {}

(***************************************************************************)
(* Claims on the adjacency utilities.                                      *)
(***************************************************************************)
SupportedFormats == {"ndarray", "csr_matrix", "coo_matrix"}

Transposed(p) == <<p[2], p[1]>>

Max(a, b) == IF a >= b THEN a ELSE b

\* C4: make_undirected returns a symmetric matrix for every square adjacency
\* matrix given as a numpy array or as a scipy csr/coo matrix.
C4_UndirectedIsSymmetric ==
    (adj_fn = "make_undirected" /\ adj_arg.fmt \in SupportedFormats) =>
        \A p \in DOMAIN adj_ret.M : adj_ret.M[p] = adj_ret.M[Transposed(p)]

\* C5: for a matrix with non-negative entries every entry of the result of
\* make_undirected is max(A[i,j], A[j,i]).
C5_UndirectedIsEntrywiseMax ==
    (adj_fn = "make_undirected" /\ adj_arg.fmt \in SupportedFormats /\ NonNegative(adj_arg)) =>
        \A p \in DOMAIN adj_ret.M :
            adj_ret.M[p] = Max(adj_arg.M[p], adj_arg.M[Transposed(p)])

\* The matrix B = A + I, or A, that the last precompute_adjacency_scaled call scaled.
ScaledB == [p \in DOMAIN adj_arg.M |->
               IF adj_add_identity /\ p[1] = p[2] THEN adj_arg.M[p] + 1 ELSE adj_arg.M[p]]

RowSumB(i) == SumSeq([j \in 1 .. adj_arg.shape[2] |-> ScaledB[<<i, j - 1>>]])
ColSumB(j) == SumSeq([i \in 1 .. adj_arg.shape[1] |-> ScaledB[<<i - 1, j>>]])

RECURSIVE ProdSeq(_)
ProdSeq(q) == IF q = <<>> THEN 1 ELSE Head(q) * ProdSeq(Tail(q))

\* The term x has the value b / sqrt(d), for d > 0.
HasValue(x, b, d) ==
    /\ (x.coef >= 0) <=> (b >= 0)
    /\ x.coef * x.coef * d = b * b * ProdSeq(x.rad)

\* C6: entry (i,j) of precompute_adjacency_scaled is B[i,j] / sqrt(rowsum_i(B))
\* / sqrt(colsum_j(B)) for B = A + I (B = A without add_identity), with the
\* factor of a row or column of sum 0 taken as 0; no entry is infinite.
C6_ScaledAdjacency ==
    (adj_fn = "precompute_adjacency_scaled" /\ adj_raised = "none") =>
        \A p \in DOMAIN adj_ret.M :
            LET x == adj_ret.M[p]
            IN  /\ DOMAIN x = {"coef", "rad"}
                /\ ~IsInf(x)
                /\ IF RowSumB(p[1]) = 0 \/ ColSumB(p[2]) = 0
                   THEN x.coef = 0
                   ELSE HasValue(x, ScaledB[p], RowSumB(p[1]) * ColSumB(p[2]))

\* A matrix with an empty row and a non-empty one was scaled without identity.
C6_Witness ==
    /\ adj_fn = "precompute_adjacency_scaled"
    /\ adj_raised = "none"
    /\ ~adj_add_identity
    /\ adj_arg.shape = <<2, 2>>
    /\ RowSumB(0) = 0
    /\ adj_ret.M[<<1, 0>>] = [coef |-> 1, rad |-> <<2, 1>>]
    /\ adj_ret.M[<<0, 0>>] = Zero

RowMajorBefore(p, q) == p[1] < q[1] \/ (p[1] = q[1] /\ p[2] < q[2])

\* C7: for a numpy matrix scaled_adjacency_to_list returns edge_index and
\* edge_weight of equal length, one row [i, j] for exactly each position with
\* an entry > 0, in row-major order, and edge_weight[k] is the entry at edge_index[k].
C7_ToListOfArray ==
    (adj_fn = "scaled_adjacency_to_list" /\ adj_arg.fmt = "ndarray") =>
        LET ei == adj_ret.edge_index
            ew == adj_ret.edge_weight
        IN  /\ adj_raised = "none"
            /\ Len(ei) = Len(ew)
            /\ \A k \in 1 .. Len(ei) :
                  /\ ei[k] \in DOMAIN adj_arg.M
                  /\ adj_arg.M[ei[k]] > 0
                  /\ ew[k] = adj_arg.M[ei[k]]
            /\ \A p \in DOMAIN adj_arg.M :
                  adj_arg.M[p] > 0 => \E k \in 1 .. Len(ei) : ei[k] = p
            /\ \A k \in 1 .. Len(ei), l \in 1 .. Len(ei) :
                  k < l => RowMajorBefore(ei[k], ei[l])

\* A numpy matrix with two different weights, a zero and a negative entry.
C7_Witness ==
    /\ adj_fn = "scaled_adjacency_to_list"
    /\ adj_arg.fmt = "ndarray"
    /\ adj_arg.shape = <<2, 2>>
    /\ adj_ret.edge_index = <<<<0, 1>>, <<1, 0>>>>
    /\ adj_ret.edge_weight = <<2 ^ MantissaBits, 1>>

\* C8: scaled_adjacency_to_list raises TypeError whenever its argument is
\* neither a numpy array nor a scipy csr/coo matrix.
C8_ToListTypeError ==
    (adj_fn = "scaled_adjacency_to_list" /\ adj_arg.fmt \notin SupportedFormats) =>
        adj_raised = "TypeError"

(***************************************************************************)
(* Claims on the scalers.                                                  *)
(***************************************************************************)
\* scaler was saved to a path ending in ".json" and the new scaler loaded that path
SavedAndLoaded ==
    /\ scl_call.op = "save"
    /\ scl_call.file_path.ext = ".json"
    /\ load_call # NoLoad
    /\ load_call.file_path = scl_call.file_path

\* n.transform and n.inverse_transform give on every data what those of s give
TransformsAlike(n, s) ==
    \A op \in {"transform", "inverse_transform"}, data \in DataInputs(MaxSamples) :
        LET rn == Call(n, op, data, None, None, None)
            rs == Call(s, op, data, None, None, None)
        IN  rn.ret = rs.ret /\ rn.raised = rs.raised

\* C9: for a fitted scaler s and a path ending in ".json", after s.save(path)
\* a new scaler n with n.load(path) has the get_config() and the
\* get_weights() of s, transforms and inverse-transforms data as s does, and
\* load returned the scaler itself.
C9_SaveLoadRoundTrip ==
    (SavedAndLoaded /\ IsFitted(scaler)) =>
        /\ scl_call.raised = "none"
        /\ load_call.raised = "none"
        /\ load_call.ret = Self
        /\ get_config(loaded) = get_config(scaler)
        /\ get_weights(loaded) = get_weights(scaler)
        /\ TransformsAlike(loaded, scaler)

\* A scaler with a mean and a scale other than the defaults made the round
\* trip, and the attributes of the new scaler are not the objects saved.
C9_Witness ==
    /\ SavedAndLoaded
    /\ hasattr(scaler, "scale_")
    /\ scaler.attrs["mean_"].t = "ndarray"
    /\ scaler.attrs["mean_"].v[1] # RInt(0)
    /\ scaler.attrs["scale_"].t = "ndarray"
    /\ scaler.attrs["scale_"].v[1] # [sqrt_of |-> RInt(1)]
    /\ load_call.raised = "none"
    /\ loaded.attrs # scaler.attrs

\* C10: the result and the fitted state of fit, partial_fit, fit_transform,
\* transform and inverse_transform of StandardLabelScaler are the same
\* whatever is passed as X or atomic_number: the twin, given values for them,
\* is in the state of the scaler, and its call returned or raised the same.
C10_LabelScalerUsesOnlyY ==
    scaler.cls = "StandardLabelScaler" =>
        /\ twin = scaler
        /\ scl_call.op \in Ops =>
              twin_call.ret = scl_call.ret /\ twin_call.raised = scl_call.raised

\* A label scaler was fitted on y a second time while the twin was given X.
C10_Witness ==
    /\ scaler.cls = "StandardLabelScaler"
    /\ scl_call.op = "partial_fit"
    /\ scl_call.raised = "none"
    /\ twin_call.other # None
    /\ scaler.attrs["n_samples_seen_"].v > Len(scl_call.data.v)

\* The step is a call of fit or partial_fit of a label scaler without y.
FitWithoutY ==
    /\ scaler.cls = "StandardLabelScaler"
    /\ n_given' # n_given
    /\ scl_call'.op \in {"fit", "partial_fit"}
    /\ scl_call'.data = None

\* C11: StandardLabelScaler.fit and partial_fit raise ValueError when y is
\* None, and the call leaves the statistics fitted before (mean_, scale_,
\* var_, n_samples_seen_) as they were.
C11_NoYRaisesAndKeepsStatistics ==
    [][FitWithoutY =>
          /\ scl_call'.raised = "ValueError"
          /\ \A x \in {"mean_", "scale_", "var_", "n_samples_seen_"} :
                scaler'.attrs[x] = scaler.attrs[x]]_vars

\* A fitted label scaler was called with fit(None) and has its statistics.
C11_Witness ==
    /\ scaler.cls = "StandardLabelScaler"
    /\ scl_call.op = "fit"
    /\ scl_call.data = None
    /\ scl_call.raised = "ValueError"
    /\ hasattr(scaler, "scale_")
    /\ scaler.attrs["n_samples_seen_"].v >= 2

(***************************************************************************)
(* Claims on the molecule dataset.                                         *)
(***************************************************************************)
\* The step is a prepare_data call in whose data directory mol.json exists.
PrepareWithMolFile ==
    /\ n_prep' # n_prep
    /\ dataset'.data_directory # None
    /\ exists(disk, dataset'.data_directory.v, mol_filename)

\* C12: once mol.json exists in the data directory, a prepare_data call with
\* overwrite=False returns the dataset without reading the csv file and
\* leaves the files as they are; mol.json is written only by a call with
\* overwrite=True or a call that did not find it.
C12_PreparedOnce ==
    [][/\ (PrepareWithMolFile /\ ~prep_call'.overwrite) =>
              /\ prep_call'.raised = "none"
              /\ prep_call'.ret = Self
              /\ ~prep_call'.read_csv
              /\ ~prep_call'.wrote
              /\ disk' = disk
       /\ (n_prep' # n_prep /\ (prep_call'.wrote \/ disk' # disk)) =>
              prep_call'.overwrite \/ ~PrepareWithMolFile]_vars

\* A second call with overwrite=False found the mol.json the first call made.
C12_Witness ==
    /\ n_prep >= 2
    /\ prep_call.existed
    /\ ~prep_call.overwrite
    /\ prep_call.raised = "none"
    /\ ~prep_call.read_csv
    /\ disk[prep_call.data_directory.v][mol_filename] # EarlierMolFile

(***************************************************************************)
(* Claims on the training scripts.                                         *)
(***************************************************************************)
ToSet(seq) == {seq[i] : i \in 1 .. Len(seq)}

Samples == 0 .. graphs.length - 1

\* The folds recorded so far whose test_index holds the sample.
TestFoldsOf(i) == {f \in 1 .. Len(all_test_index) : i \in ToSet(all_test_index[f][2])}

\* The loop of a script with a KFold configuration: it is not left by an
\* exception, it ends after n_splits runs of the body, train_index and
\* test_index of every fold split the samples 0..N-1, no sample is in two
\* test sets and at the end every sample is in one, and all_test_index
\* holds the pairs of the folds run so far, the last fold last.
KFoldLoop ==
    /\ script_raised.at \notin {"KFold", "for"}
    /\ pc = "done" => n_body = k_fold_info.v.n_splits
    /\ \A f \in 1 .. Len(all_test_index) :
          LET train == all_test_index[f][1]
              test == all_test_index[f][2]
          IN  /\ ToSet(train) \cap ToSet(test) = {}
              /\ ToSet(train) \cup ToSet(test) = Samples
              /\ Len(train) + Len(test) = graphs.length
    /\ \A i \in Samples : Cardinality(TestFoldsOf(i)) <= 1
    /\ pc = "done" => \A i \in Samples : Cardinality(TestFoldsOf(i)) = 1
    /\ Len(all_test_index) = n_body
    /\ n_body > 0 => all_test_index[n_body] = <<train_index, test_index>>

\* C13 as stated: a script with n_splits folds over the samples 0..N-1 runs
\* the loop body exactly n_splits times, train_index and test_index of each
\* fold are disjoint and hold all N indices, every index is in the test set
\* of exactly one fold, and all_test_index has one pair per fold in order.
C13_KFoldLoop ==
    (script # "none" /\ k_fold_info # Absent) => KFoldLoop

\* C13 amended: the same, for a configuration with 2 <= n_splits <= N.
C13_KFoldLoopOfValidSplit ==
    (/\ script # "none"
     /\ k_fold_info # Absent
     /\ k_fold_info.v.n_splits >= 2
     /\ k_fold_info.v.n_splits <= graphs.length) => KFoldLoop

\* A script ended its loop over shuffled samples in folds of unequal size.
C13_Witness ==
    /\ pc = "done"
    /\ k_fold_info.v.shuffle
    /\ indices # arange(graphs.length)
    /\ graphs.length % k_fold_info.v.n_splits # 0
    /\ n_body = k_fold_info.v.n_splits
    /\ n_body >= 3

\* train_lipop is past the dataset steps, or was ended by one of them.
DataStepsOver ==
    /\ script = "train_lipop"
    /\ pc \notin {"set_range", "set_edge_indices_reverse_pairs"}

\* C15: in train_lipop the keys of hyper['data'] drive the dataset steps:
\* with the key 'set_range' the range is set with the configured parameters,
\* with 'set_edge_indices_reverse_pairs' the reverse edge pairs are set,
\* without a key its step is left out, and no case ends the script.
C15_DataKeysDriveSteps ==
    DataStepsOver =>
        /\ script_raised.at \notin {"set_range", "set_edge_indices_reverse_pairs"}
        /\ HasKey(hyper_data, "set_range") =>
              /\ graphs.range # None
              /\ graphs.range \in {hyper_data["set_range"], hyper_data["range"]}
        /\ ~HasKey(hyper_data, "set_range") => graphs.range = None
        /\ graphs.reverse_pairs = HasKey(hyper_data, "set_edge_indices_reverse_pairs")

====
